---- MODULE Spec2Model ----
(***************************************************************************)
(* Model of the custom-chess session server (server/index.js, here          *)
(* src/unnamed/part_000) together with the part of the client               *)
(* (src/client/src/App.jsx) that holds the colour a player was assigned,    *)
(* and with the rules engines of the client (GameRules.js, here            *)
(* src/unnamed/part_001).                                                  *)
(*                                                                         *)
(* The server is a single-threaded socket.io dispatcher: every event        *)
(* handler runs to completion, so each handler is one action.  The          *)
(* variables emits and ack hold what the last handler sent: the messages    *)
(* it emitted, each with the set of sockets it was addressed to, and the    *)
(* acknowledgement it passed to the caller.                                 *)
(***************************************************************************)
EXTENDS Integers, Sequences, FiniteSets, TLC

\* ---------------------------------------------------------------- bounds
NumSockets == 3
NumRooms == 2
NumOfferRooms == 1
NumFens == 2
MaxTime == 1
MaxRecorded == 1
MaxPly == 3
MaxUndo == 3
MaxHistory == 3
MaxTurns == 5
MaxSessionPly == 2
MaxInFlight == 2

\* ------------------------------------------------------ program constants
ROOM_CAPACITY == 2
SERVER_MAX_PLIES == 2
CLIENT_MAX_PLIES == 4

\* null / undefined values of the program
NoSocket == 0
NoRoom == 0
NoFen == 0
NoPlies == 0

Sockets == 1..NumSockets
Rooms == 1..NumRooms
\* the rooms in which offers and moves are sent under Spec
OfferRooms == 1..NumOfferRooms
Fens == 1..NumFens
Times == 0..MaxTime

RoomInputs == OfferRooms \cup {NoRoom}
ColorInputs == {"w", "b"}
FenInputs == Fens \cup {NoFen}
PliesInputs == (0 - 1)..CLIENT_MAX_PLIES

\* `${Date.now()}_${socket.id}`
OfferIdOf(t, s) == [t |-> t, s |-> s]
NoId == [t |-> 0 - 1, s |-> NoSocket]
OfferIds == {OfferIdOf(t, s) : t \in Times, s \in Sockets}
IdInputs == OfferIds \cup {NoId}

\* offer_action requests: a draw request carries neither plies nor baseFen
\* (requestDraw); an undo request carries both (requestUndo) or lacks baseFen;
\* a request may lack the room id or carry an unknown type
OfferRequests ==
  {[roomId |-> NoRoom, type |-> "draw", fromColor |-> "w", plies |-> NoPlies,
    baseFen |-> NoFen]}
  \cup {[roomId |-> r, type |-> "bad", fromColor |-> "w", plies |-> NoPlies,
         baseFen |-> NoFen] : r \in OfferRooms}
  \cup {[roomId |-> r, type |-> "undo", fromColor |-> "w", plies |-> 1,
         baseFen |-> NoFen] : r \in OfferRooms}
  \cup {[roomId |-> r, type |-> "draw", fromColor |-> c, plies |-> NoPlies,
         baseFen |-> NoFen] : r \in OfferRooms, c \in ColorInputs}
  \cup {[roomId |-> r, type |-> "undo", fromColor |-> c, plies |-> p, baseFen |-> f] :
          r \in OfferRooms, c \in ColorInputs, p \in PliesInputs, f \in Fens}

\* respond_offer requests (respondOffer sends the current FEN with both answers)
RespondRequests ==
  {[roomId |-> NoRoom, offerId |-> NoId, accept |-> TRUE, currentFen |-> NoFen]}
  \cup {[roomId |-> r, offerId |-> id, accept |-> TRUE, currentFen |-> f] :
          r \in OfferRooms, id \in IdInputs, f \in FenInputs}
  \cup {[roomId |-> r, offerId |-> id, accept |-> FALSE, currentFen |-> f] :
          r \in OfferRooms, id \in IdInputs, f \in Fens}


NoOffer ==
  [id |-> NoId, type |-> "none", from |-> NoSocket, fromColor |-> "none",
   plies |-> NoPlies, baseFen |-> NoFen]

NoRoomRec == [exists |-> FALSE, players |-> << >>]

NoAck == [called |-> FALSE, ok |-> FALSE, error |-> "none", offerId |-> NoId]
AckOk == [called |-> TRUE, ok |-> TRUE, error |-> "none", offerId |-> NoId]
AckOkId(id) == [called |-> TRUE, ok |-> TRUE, error |-> "none", offerId |-> id]
AckErr(e) == [called |-> TRUE, ok |-> FALSE, error |-> e, offerId |-> NoId]

BaseMsg ==
  [ev |-> "none", to |-> {}, offerId |-> NoId, type |-> "none", accept |-> FALSE,
   error |-> "none", plies |-> NoPlies, reason |-> "none", playerCount |-> 0,
   color |-> "none", playerIndex |-> 0 - 1, socketId |-> NoSocket, fen |-> NoFen]

VARIABLES
  connected,      \* socket -> whether the connection is open
  adapter,        \* io.sockets.adapter.rooms: room id -> set of joined sockets
  rooms,          \* rooms: room id -> { players: [...] } or absent
  pendingOffers,  \* pendingOffers: room id -> offer or absent
  dataRoomId,     \* socket.data.roomId
  now,            \* Date.now()
  playerColor,    \* client: playerColorRef.current
  inGameRoom,     \* client: roomId while isInGame, else none
  rejectedByMove, \* history: ids of the offers a make_move has rejected
  emits,          \* messages emitted by the last handler
  ack,            \* acknowledgement passed by the last handler
  engine,         \* client: gameRulesRef.current, a rules engine
  rulesetIdRef,   \* client: rulesetIdRef.current, the active ruleset id
  apps,           \* session: the two App clients of a room, each with its engine
  outbox,         \* session: client -> events sent to the server, not yet handled
  inbox           \* session: client -> events sent by the server, not yet handled

vars ==
  <<connected, adapter, rooms, pendingOffers, dataRoomId, now, playerColor,
    inGameRoom, rejectedByMove, emits, ack, engine, rulesetIdRef, apps, outbox, inbox>>

sessionVars == <<apps, outbox, inbox>>

\* ---------------------------------------------------------------- helpers

\* Array.prototype.indexOf, 0-based, -1 when absent
IndexOf(seq, x) ==
  IF \E i \in 1..Len(seq) : seq[i] = x
  THEN (CHOOSE i \in 1..Len(seq) : seq[i] = x /\ \A j \in 1..(i - 1) : seq[j] # x) - 1
  ELSE 0 - 1

Includes(seq, x) == \E i \in 1..Len(seq) : seq[i] = x

\* players.splice(idx, 1), idx 0-based
Splice(seq, idx) == SubSeq(seq, 1, idx) \o SubSeq(seq, idx + 2, Len(seq))

\* io.sockets.adapter.rooms.get(roomId)?.size || 0
RoomSize(adp, r) == IF r \in Rooms THEN Cardinality(adp[r]) ELSE 0

\* recipients of socket.to(roomId) and of io.to(roomId)
OthersInAll(adp, r, s) == IF r \in Rooms THEN adp[r] ELSE {}
OthersIn(adp, r, s) == IF r \in Rooms THEN adp[r] \ {s} ELSE {}
AllIn(adp, r) == IF r \in Rooms THEN adp[r] ELSE {}

PendingAt(pend, r) == IF r \in Rooms THEN pend[r] ELSE NoOffer

\* ---------------------------------------------------------------- messages
OpponentLeft(to, s, reason) ==
  [BaseMsg EXCEPT !.ev = "opponent_left", !.to = to, !.socketId = s, !.reason = reason]
RoomInfo(to, n) ==
  [BaseMsg EXCEPT !.ev = "room_info", !.to = to, !.playerCount = n]
JoinError(to) ==
  [BaseMsg EXCEPT !.ev = "join_error", !.to = to, !.error = "ROOM_FULL"]
PlayerAssignment(to, idx) ==
  [BaseMsg EXCEPT !.ev = "player_assignment", !.to = to,
                  !.color = IF idx = 0 THEN "w" ELSE "b", !.playerIndex = idx]
OfferReceived(to, offer) ==
  [BaseMsg EXCEPT !.ev = "offer_received", !.to = to, !.offerId = offer.id,
                  !.type = offer.type, !.color = offer.fromColor,
                  !.plies = IF offer.type = "undo" THEN offer.plies ELSE NoPlies]
OfferResult(to, id, type, accept, error) ==
  [BaseMsg EXCEPT !.ev = "offer_result", !.to = to, !.offerId = id, !.type = type,
                  !.accept = accept, !.error = error]
UndoCommittedOnePly(to, id, plies) ==
  [BaseMsg EXCEPT !.ev = "undo_committed", !.to = to, !.offerId = id, !.plies = 1]
UndoCommitted(to, id, plies) ==
  [BaseMsg EXCEPT !.ev = "undo_committed", !.to = to, !.offerId = id,
                  !.plies = IF plies = NoPlies THEN 1 ELSE plies]
DrawCommitted(to, id) ==
  [BaseMsg EXCEPT !.ev = "draw_committed", !.to = to, !.offerId = id]
ReceiveMove(to, fen) ==
  [BaseMsg EXCEPT !.ev = "receive_move", !.to = to, !.fen = fen]

GameReset(to) == [BaseMsg EXCEPT !.ev = "game_reset", !.to = to]
PlayerResigned(to, color) ==
  [BaseMsg EXCEPT !.ev = "player_resigned", !.to = to, !.color = color]

Emitted(ev) == \E i \in 1..Len(emits) : emits[i].ev = ev

\* ------------------------------------------------------------------- effects
\* What a handler does to the server's tables and what it sends, as a record;
\* Same is a handler that returns at once.
Same ==
  [adapter |-> adapter, rooms |-> rooms, pendingOffers |-> pendingOffers,
   dataRoomId |-> dataRoomId, emits |-> << >>, ack |-> NoAck]

Apply(e) ==
  /\ adapter' = e.adapter
  /\ rooms' = e.rooms
  /\ pendingOffers' = e.pendingOffers
  /\ dataRoomId' = e.dataRoomId
  /\ emits' = e.emits
  /\ ack' = e.ack

\* ------------------------------------------------------------ removeFromRoom
\* removeFromRoom(roomId, reason) of socket s, given the tables and the
\* transport membership at the time of the call.
RemoveFromRoomDropsOffer(rms, pend, adp, s, r, reason) ==
  IF r = NoRoom \/ ~rms[r].exists
  THEN [rooms |-> rms, pendingOffers |-> pend, emits |-> << >>]
  ELSE LET idx == IndexOf(rms[r].players, s)
           players1 == IF idx # 0 - 1 THEN Splice(rms[r].players, idx)
                       ELSE rms[r].players
           left == OpponentLeft(OthersIn(adp, r, s), s, reason)
       IN IF Len(players1) = 0
          THEN [rooms |-> [rms EXCEPT ![r] = NoRoomRec],
                pendingOffers |-> [pend EXCEPT ![r] = NoOffer],
                emits |-> <<left>>]
          ELSE [rooms |-> [rms EXCEPT ![r].players = players1],
                pendingOffers |-> [pend EXCEPT ![r] = NoOffer],
                emits |-> <<left, RoomInfo(AllIn(adp, r), RoomSize(adp, r))>>]

RemoveFromRoom(rms, pend, adp, s, r, reason) ==
  IF r = NoRoom \/ ~rms[r].exists
  THEN [rooms |-> rms, pendingOffers |-> pend, emits |-> << >>]
  ELSE LET idx == IndexOf(rms[r].players, s)
           players1 == IF idx # 0 - 1 THEN Splice(rms[r].players, idx)
                       ELSE rms[r].players
           left == OpponentLeft(OthersIn(adp, r, s), s, reason)
       IN IF Len(players1) = 0
          THEN [rooms |-> [rms EXCEPT ![r] = NoRoomRec],
                pendingOffers |-> [pend EXCEPT ![r] = NoOffer],
                emits |-> <<left>>]
          ELSE [rooms |-> [rms EXCEPT ![r].players = players1],
                pendingOffers |-> pend,
                emits |-> <<left, RoomInfo(AllIn(adp, r), RoomSize(adp, r))>>]

\* ------------------------------------------------------------------ join_room
\* the ROOM_FULL gate: currentSize >= 2
JoinGateAbove(currentSize) == currentSize > ROOM_CAPACITY

JoinGate(currentSize) == currentSize >= ROOM_CAPACITY

JoinEffect(s, r) ==
  IF JoinGate(RoomSize(adapter, r))
  THEN [Same EXCEPT !.ack = AckErr("ROOM_FULL"), !.emits = <<JoinError({s})>>]
  ELSE LET adp1 == [adapter EXCEPT ![r] = @ \cup {s}]
           base == IF rooms[r].exists THEN rooms[r].players ELSE << >>
           players1 == IF Includes(base, s) THEN base ELSE Append(base, s)
           playerIndex == IndexOf(players1, s)
       IN [adapter |-> adp1,
           rooms |-> [rooms EXCEPT ![r] = [exists |-> TRUE, players |-> players1]],
           pendingOffers |-> pendingOffers,
           dataRoomId |-> [dataRoomId EXCEPT ![s] = r],
           emits |-> <<PlayerAssignment({s}, playerIndex),
                       RoomInfo(AllIn(adp1, r), RoomSize(adp1, r))>>,
           ack |-> AckOk]

\* ----------------------------------------------------------------- leave_room
\* leave_room drops the room's pending offer before removeFromRoom
LeaveClearsOffer(pend, r) == [pend EXCEPT ![r] = NoOffer]

LeaveEffect(s, r) ==
  IF r = NoRoom THEN Same
  ELSE LET adp1 == [adapter EXCEPT ![r] = @ \ {s}]
           res == RemoveFromRoom(rooms, LeaveClearsOffer(pendingOffers, r), adp1, s, r,
                                 "leave_room")
       IN [adapter |-> adp1, rooms |-> res.rooms, pendingOffers |-> res.pendingOffers,
           dataRoomId |-> IF dataRoomId[s] = r THEN [dataRoomId EXCEPT ![s] = NoRoom]
                          ELSE dataRoomId,
           emits |-> res.emits, ack |-> NoAck]

\* ----------------------------------------------------------------- disconnect
\* the room the disconnect handler cleans: socket.data.roomId when set, else the
\* first key of rooms whose players include the socket (integer-like keys are
\* enumerated in ascending order)
DisconnectRoom(s) ==
  IF dataRoomId[s] # NoRoom THEN dataRoomId[s]
  ELSE IF \E r \in Rooms : rooms[r].exists /\ Includes(rooms[r].players, s)
       THEN CHOOSE r \in Rooms :
              /\ rooms[r].exists /\ Includes(rooms[r].players, s)
              /\ \A q \in Rooms :
                   (rooms[q].exists /\ Includes(rooms[q].players, s)) => r <= q
       ELSE NoRoom

\* socket.io has taken the socket out of every transport room before the
\* 'disconnect' event is dispatched
DisconnectEffect(s) ==
  LET adp1 == [r \in Rooms |-> adapter[r] \ {s}]
      res == RemoveFromRoom(rooms, pendingOffers, adp1, s, DisconnectRoom(s), "disconnect")
  IN [adapter |-> adp1, rooms |-> res.rooms, pendingOffers |-> res.pendingOffers,
      dataRoomId |-> [dataRoomId EXCEPT ![s] = NoRoom],
      emits |-> res.emits, ack |-> NoAck]

\* --------------------------------------------------------------- offer_action
Max(a, b) == IF a >= b THEN a ELSE b
Min(a, b) == IF a <= b THEN a ELSE b

\* Number(data?.plies) || 1 : an absent, NaN or zero value reads as 1
PliesOf(pliesIn) == IF pliesIn = NoPlies THEN 1 ELSE pliesIn

\* requestUndo: Math.max(1, Math.min(4, Number(pliesRaw) || 1))
RequestUndoPlies(pliesRaw) == Max(1, Min(CLIENT_MAX_PLIES, PliesOf(pliesRaw)))

\* Math.max(1, Math.min(2, plies))
ClampPlies(plies) == Max(1, Min(SERVER_MAX_PLIES, plies))

OfferCheckNoPending(r, type, baseFen) ==
  IF r = NoRoom \/ (type # "undo" /\ type # "draw") THEN "BAD_REQUEST"
  ELSE IF type = "undo" /\ baseFen = NoFen THEN "BAD_REQUEST"
  ELSE IF RoomSize(adapter, r) < ROOM_CAPACITY THEN "OPPONENT_NOT_PRESENT"
  ELSE "ok"

\* the checks of offer_action, in the order of the code; "ok" when all pass
OfferCheck(r, type, baseFen) ==
  IF r = NoRoom \/ (type # "undo" /\ type # "draw") THEN "BAD_REQUEST"
  ELSE IF type = "undo" /\ baseFen = NoFen THEN "BAD_REQUEST"
  ELSE IF RoomSize(adapter, r) < ROOM_CAPACITY THEN "OPPONENT_NOT_PRESENT"
  ELSE IF pendingOffers[r] # NoOffer THEN "OFFER_PENDING"
  ELSE "ok"

NewOffer(s, type, fromColor, pliesIn, baseFen) ==
  [id |-> OfferIdOf(now, s), type |-> type, from |-> s, fromColor |-> fromColor,
   plies |-> IF type = "undo" THEN ClampPlies(PliesOf(pliesIn)) ELSE NoPlies,
   baseFen |-> IF type = "undo" THEN baseFen ELSE NoFen]

OfferEffectWritesFirst(s, r, type, fromColor, pliesIn, baseFen) ==
  LET check == OfferCheck(r, type, baseFen)
      offer == NewOffer(s, type, fromColor, pliesIn, baseFen)
  IN IF r \notin Rooms
     THEN [Same EXCEPT !.ack = AckErr(check)]
     ELSE [Same EXCEPT !.pendingOffers = [pendingOffers EXCEPT ![r] = offer],
                       !.emits = IF check = "ok"
                                 THEN <<OfferReceived(OthersIn(adapter, r, s), offer)>>
                                 ELSE << >>,
                       !.ack = IF check = "ok" THEN AckOkId(offer.id) ELSE AckErr(check)]

OfferEffect(s, r, type, fromColor, pliesIn, baseFen) ==
  LET check == OfferCheck(r, type, baseFen)
      offer == NewOffer(s, type, fromColor, pliesIn, baseFen)
  IN IF check # "ok"
     THEN [Same EXCEPT !.ack = AckErr(check)]
     ELSE [Same EXCEPT !.pendingOffers = [pendingOffers EXCEPT ![r] = offer],
                       !.emits = <<OfferReceived(OthersIn(adapter, r, s), offer)>>,
                       !.ack = AckOkId(offer.id)]

\* -------------------------------------------------------------- respond_offer
RespondCheckOwnAllowed(s, r, offerId, accept, currentFen) ==
  LET pending == PendingAt(pendingOffers, r)
  IN IF r = NoRoom \/ offerId = NoId \/ pending = NoOffer \/ pending.id # offerId
     THEN "OFFER_NOT_FOUND"
     ELSE IF /\ accept
             /\ pending.type = "undo"
             /\ (currentFen = NoFen \/ pending.baseFen = NoFen
                   \/ currentFen # pending.baseFen)
          THEN "OFFER_STALE"
     ELSE "ok"

RespondCheckStaleKeepsUndo(s, r, offerId, accept, currentFen) ==
  LET pending == PendingAt(pendingOffers, r)
  IN IF r = NoRoom \/ offerId = NoId \/ pending = NoOffer \/ pending.id # offerId
     THEN "OFFER_NOT_FOUND"
     ELSE IF pending.from = s THEN "CANNOT_ACCEPT_OWN"
     ELSE IF /\ accept
             /\ pending.type = "undo"
             /\ (currentFen = NoFen \/ pending.baseFen = NoFen)
          THEN "OFFER_STALE"
     ELSE "ok"

RespondCheckNoStale(s, r, offerId, accept, currentFen) ==
  LET pending == PendingAt(pendingOffers, r)
  IN IF r = NoRoom \/ offerId = NoId \/ pending = NoOffer \/ pending.id # offerId
     THEN "OFFER_NOT_FOUND"
     ELSE IF pending.from = s THEN "CANNOT_ACCEPT_OWN"
     ELSE "ok"

\* the checks of respond_offer, in the order of the code; "ok" when the offer
\* is resolved with the given accept
RespondCheck(s, r, offerId, accept, currentFen) ==
  LET pending == PendingAt(pendingOffers, r)
  IN IF r = NoRoom \/ offerId = NoId \/ pending = NoOffer \/ pending.id # offerId
     THEN "OFFER_NOT_FOUND"
     ELSE IF pending.from = s THEN "CANNOT_ACCEPT_OWN"
     ELSE IF /\ accept
             /\ pending.type = "undo"
             /\ (currentFen = NoFen \/ pending.baseFen = NoFen
                   \/ currentFen # pending.baseFen)
          THEN "OFFER_STALE"
     ELSE "ok"

RespondEffect(s, r, offerId, accept, currentFen) ==
  LET check == RespondCheck(s, r, offerId, accept, currentFen)
      pending == PendingAt(pendingOffers, r)
      all == AllIn(adapter, r)
      cleared == [pendingOffers EXCEPT ![r] = NoOffer]
  IN CASE check = "OFFER_NOT_FOUND" \/ check = "CANNOT_ACCEPT_OWN" ->
            [Same EXCEPT !.ack = AckErr(check)]
       [] check = "OFFER_STALE" ->
            [Same EXCEPT !.pendingOffers = cleared,
                         !.emits = <<OfferResult(all, offerId, pending.type, FALSE,
                                                 "OFFER_STALE")>>,
                         !.ack = AckErr("OFFER_STALE")]
       [] OTHER ->
            [Same EXCEPT !.pendingOffers = cleared,
                         !.emits =
                            <<OfferResult(all, offerId, pending.type, accept, "none")>>
                            \o (IF accept /\ pending.type = "undo"
                                  THEN <<UndoCommitted(all, offerId, pending.plies)>>
                                ELSE IF accept /\ pending.type = "draw"
                                  THEN <<DrawCommitted(all, offerId)>>
                                ELSE << >>),
                         !.ack = AckOk]

\* ------------------------------------------------------------------ make_move
MoveClearsAny(pending) == pending # NoOffer

\* the pending offers a move rejects: pending && pending.type === 'undo'
MoveClears(pending) == pending # NoOffer /\ pending.type = "undo"

MoveEffect(s, r, fen) ==
  LET pending == PendingAt(pendingOffers, r)
      relay == ReceiveMove(OthersIn(adapter, r, s), fen)
  IN IF MoveClears(pending)
     THEN [Same EXCEPT !.pendingOffers = [pendingOffers EXCEPT ![r] = NoOffer],
                       !.emits = <<OfferResult(AllIn(adapter, r), pending.id, "undo",
                                               FALSE, "OFFER_REJECTED_BY_MOVE"), relay>>]
     ELSE [Same EXCEPT !.emits = <<relay>>]

\* ------------------------------------------------- reset_game and resign_game
ResetGameClearsOffer(s, r) ==
  [Same EXCEPT !.pendingOffers = IF r \in Rooms THEN [pendingOffers EXCEPT ![r] = NoOffer]
                                 ELSE pendingOffers,
               !.emits = <<GameReset(AllIn(adapter, r))>>]

\* both handlers broadcast to the whole room and keep nothing
ResetGameEffect(s, r) == [Same EXCEPT !.emits = <<GameReset(AllIn(adapter, r))>>]

ResignGameEffect(s, r, color) ==
  [Same EXCEPT !.emits = <<PlayerResigned(AllIn(adapter, r), color)>>]

\* -------------------------------------------------------------------- actions
Open(s) == connected[s] = "open"

\* io.on('connection'): connections arrive one by one and each gets a fresh
\* socket id; a closed connection's id is never used again
Connect(s) ==
  /\ connected[s] = "unborn"
  /\ \A q \in Sockets : q < s => connected[q] # "unborn"
  /\ connected' = [connected EXCEPT ![s] = "open"]
  /\ Apply(Same)
  /\ UNCHANGED <<sessionVars, engine, rulesetIdRef, now, playerColor, inGameRoom, rejectedByMove>>

JoinRoom(s, r) ==
  /\ Open(s)
  /\ Apply(JoinEffect(s, r))
  /\ UNCHANGED <<sessionVars, engine, rulesetIdRef, connected, now, playerColor, inGameRoom, rejectedByMove>>

LeaveRoom(s, r) ==
  /\ Open(s)
  /\ Apply(LeaveEffect(s, r))
  /\ UNCHANGED <<sessionVars, engine, rulesetIdRef, connected, now, playerColor, inGameRoom, rejectedByMove>>

Disconnect(s) ==
  /\ Open(s)
  /\ connected' = [connected EXCEPT ![s] = "closed"]
  /\ Apply(DisconnectEffect(s))
  /\ UNCHANGED <<sessionVars, engine, rulesetIdRef, now, playerColor, inGameRoom, rejectedByMove>>

OfferAction(s, r, type, fromColor, pliesIn, baseFen) ==
  /\ Open(s)
  /\ Apply(OfferEffect(s, r, type, fromColor, pliesIn, baseFen))
  /\ UNCHANGED <<sessionVars, engine, rulesetIdRef, connected, now, playerColor, inGameRoom, rejectedByMove>>

RespondOffer(s, r, offerId, accept, currentFen) ==
  /\ Open(s)
  /\ Apply(RespondEffect(s, r, offerId, accept, currentFen))
  /\ UNCHANGED <<sessionVars, engine, rulesetIdRef, connected, now, playerColor, inGameRoom, rejectedByMove>>

MakeMove(s, r, fen) ==
  /\ Open(s)
  /\ Apply(MoveEffect(s, r, fen))
  /\ UNCHANGED <<sessionVars, engine, rulesetIdRef, connected, now, playerColor, inGameRoom, rejectedByMove>>

ResetGame(s, r) ==
  /\ Open(s)
  /\ Apply(ResetGameEffect(s, r))
  /\ UNCHANGED <<sessionVars, engine, rulesetIdRef, connected, now, playerColor, inGameRoom, rejectedByMove>>

ResignGame(s, r, color) ==
  /\ Open(s)
  /\ Apply(ResignGameEffect(s, r, color))
  /\ UNCHANGED <<sessionVars, engine, rulesetIdRef, connected, now, playerColor, inGameRoom, rejectedByMove>>

\* make_move, recording the id of the offer it rejects (of the first MaxRecorded)
MakeMoveRecorded(s, r, fen) ==
  /\ Open(s)
  /\ Apply(MoveEffect(s, r, fen))
  /\ rejectedByMove' =
       IF MoveClears(PendingAt(pendingOffers, r)) /\ Cardinality(rejectedByMove) < MaxRecorded
       THEN rejectedByMove \cup {pendingOffers[r].id}
       ELSE rejectedByMove
  /\ UNCHANGED <<sessionVars, engine, rulesetIdRef, connected, now, playerColor, inGameRoom>>

\* Date.now() advances between two events, or does not
Tick ==
  /\ now < MaxTime
  /\ now' = now + 1
  /\ Apply(Same)
  /\ UNCHANGED <<sessionVars, engine, rulesetIdRef, connected, playerColor, inGameRoom, rejectedByMove>>

\* ---------------------------------------------------------------- App client
\* the player_assignment handler sets the colour only when none is held
AssignColor(held, color) == IF held = "none" THEN color ELSE held

\* the colour the client of s holds after the messages ms have been delivered
ColorAfter(s, held, ms) ==
  IF \E i \in 1..Len(ms) : ms[i].ev = "player_assignment" /\ s \in ms[i].to
  THEN AssignColor(held, ms[CHOOSE i \in 1..Len(ms) :
                              ms[i].ev = "player_assignment" /\ s \in ms[i].to].color)
  ELSE held

\* joinRoom, offered by the lobby (isInGame false): join_room is handled by the
\* server, then player_assignment and the acknowledgement by the client
AppJoinRoom(s, r) ==
  /\ Open(s)
  /\ inGameRoom[s] = NoRoom
  /\ Apply(JoinEffect(s, r))
  /\ playerColor' = [playerColor EXCEPT ![s] = ColorAfter(s, @, JoinEffect(s, r).emits)]
  /\ inGameRoom' = [inGameRoom EXCEPT ![s] = IF JoinEffect(s, r).ack.ok THEN r ELSE @]
  /\ UNCHANGED <<sessionVars, engine, rulesetIdRef, connected, now, rejectedByMove>>

\* backToRoomEntry, offered in a game: sends leave_room for the client's room
\* and forgets the colour
AppLeaveRoom(s) ==
  /\ Open(s)
  /\ inGameRoom[s] # NoRoom
  /\ Apply(LeaveEffect(s, inGameRoom[s]))
  /\ playerColor' = [playerColor EXCEPT ![s] = "none"]
  /\ inGameRoom' = [inGameRoom EXCEPT ![s] = NoRoom]
  /\ UNCHANGED <<sessionVars, engine, rulesetIdRef, connected, now, rejectedByMove>>

\* ---------------------------------------------------------------- rules engine
\* The engines of GameRules.js (BaseChessRules, StandardChessRules,
\* TwoStepChessRules) over chess.js.  A chess.js game is abstracted to what its
\* FEN holds: board is the piece placement (n tells placements apart, checked is
\* the colour whose king is attacked, over says that isGameOver() holds), turn
\* the active colour, ep the rank of the en-passant target square or "-".
RULESET_IDS == [STANDARD |-> "standard", TWO_STEP |-> "two_step"]

Colors == {"w", "b"}
Opposite(c) == IF c = "w" THEN "b" ELSE "w"

\* getRulesState() of BaseChessRules: null
NullState == 0 - 1

StartGame ==
  [board |-> [n |-> 0, checked |-> "-", over |-> FALSE], turn |-> "w", ep |-> "-"]

LoadOtherSide(fen) == [board |-> fen.board, turn |-> Opposite(fen.turn), ep |-> fen.ep]

\* game.fen() and what game.load(fen) makes of a valid FEN
Fen(game) == [board |-> game.board, turn |-> game.turn, ep |-> game.ep]
Load(fen) == [board |-> fen.board, turn |-> fen.turn, ep |-> fen.ep]

\* game.load(fen) throws when chess.js finds the FEN invalid: an en-passant
\* target on rank 3 needs black to move, one on rank 6 white
ValidFen(fen) == ~((fen.ep = "3" /\ fen.turn = "w") \/ (fen.ep = "6" /\ fen.turn = "b"))

InCheck(game) == game.board.checked = game.turn
IsGameOver(game) == game.board.over

\* the moves handed to game.move(move): illegal ones make it throw; a legal one
\* may attack the opponent's king, may end the game, and may be a double pawn
\* step that leaves an en-passant target
Moves == [legal : BOOLEAN, check : BOOLEAN, over : BOOLEAN, ep : BOOLEAN]

ChessMove(game, m) ==
  [board |-> [n |-> game.board.n + 1,
              checked |-> IF m.check THEN Opposite(game.turn) ELSE "-",
              over |-> m.over],
   turn |-> Opposite(game.turn),
   ep |-> IF m.ep THEN (IF game.turn = "w" THEN "3" ELSE "6") ELSE "-"]

\* createRuleset(id): the constructors leave one snapshot
NewEngine(id) ==
  LET two == id = RULESET_IDS.TWO_STEP
      step == IF two THEN 0 ELSE NullState
  IN [id |-> IF two THEN RULESET_IDS.TWO_STEP ELSE RULESET_IDS.STANDARD,
      game |-> StartGame,
      turnStep |-> step,
      snapshots |-> <<[fen |-> Fen(StartGame), rulesState |-> step]>>,
      ret |-> "none"]

\* getRulesState(): null, or { turnStep } in the TwoStep variant
GetRulesState(e) == IF e.id = RULESET_IDS.TWO_STEP THEN e.turnStep ELSE NullState

SetRulesStateIgnored(e, state) == e

SetRulesStateUnchecked(e, state) ==
  IF e.id # RULESET_IDS.TWO_STEP THEN e
  ELSE [e EXCEPT !.turnStep = IF state = NullState THEN 0 ELSE state]

\* setRulesState(state): a no-op in BaseChessRules
SetRulesState(e, state) ==
  IF e.id # RULESET_IDS.TWO_STEP THEN e
  ELSE IF state = 0 \/ state = 1 THEN [e EXCEPT !.turnStep = state]
  ELSE IF state = NullState THEN [e EXCEPT !.turnStep = 0]
  ELSE e

PushSnapshotSecondStep(e) ==
  [e EXCEPT !.snapshots = Append(@, [fen |-> Fen(e.game), rulesState |-> 1])]

PushSnapshot(e) ==
  [e EXCEPT !.snapshots =
     Append(@, [fen |-> Fen(e.game), rulesState |-> GetRulesState(e)])]

BaseMakeMoveUnrecorded(e, m) ==
  IF ~m.legal THEN [e EXCEPT !.ret = "null"]
  ELSE [e EXCEPT !.game = ChessMove(e.game, m), !.ret = "move"]

\* BaseChessRules.makeMove
BaseMakeMove(e, m) ==
  IF ~m.legal THEN [e EXCEPT !.ret = "null"]
  ELSE [PushSnapshot([e EXCEPT !.game = ChessMove(e.game, m)]) EXCEPT !.ret = "move"]

CheckEndsTurnNever(isFirstStep, gaveCheckOnThisPly) == FALSE

\* a first step that gives check ends the turn: isFirstStep && gaveCheckOnThisPly
CheckEndsTurn(isFirstStep, gaveCheckOnThisPly) == isFirstStep /\ gaveCheckOnThisPly

\* TwoStepChessRules.makeMove
TwoStepMakeMove(e, m) ==
  IF ~m.legal THEN [e EXCEPT !.ret = "null"]
  ELSE
    LET moverColor == e.game.turn
        isFirstStep == e.turnStep = 0
        moved == [e EXCEPT !.game = ChessMove(e.game, m)]
        gaveCheckOnThisPly == InCheck(moved.game)
        ended == IsGameOver(moved.game)
        overridden == [Fen(moved.game) EXCEPT !.turn = moverColor]
    IN IF ended
         THEN [PushSnapshot([moved EXCEPT !.turnStep = 0]) EXCEPT !.ret = "move"]
       ELSE IF CheckEndsTurn(isFirstStep, gaveCheckOnThisPly)
         THEN [PushSnapshot([moved EXCEPT !.turnStep = 0]) EXCEPT !.ret = "move"]
       ELSE IF isFirstStep
         THEN IF ValidFen(overridden)
              THEN [PushSnapshot([moved EXCEPT !.game = Load(overridden),
                                               !.turnStep = 1])
                      EXCEPT !.ret = "move"]
              ELSE [moved EXCEPT !.ret = "null"]
       ELSE [PushSnapshot([moved EXCEPT !.turnStep = 0]) EXCEPT !.ret = "move"]

MakeMoveOf(e, m) ==
  IF e.id = RULESET_IDS.TWO_STEP THEN TwoStepMakeMove(e, m) ELSE BaseMakeMove(e, m)

\* canUndoPlies(plies)
CanUndoPlies(e, plies) == IF plies <= 0 THEN FALSE ELSE Len(e.snapshots) > plies

\* undoPlies(plies): n = Math.max(1, Number(plies) || 1)
UndoPliesOf(e, plies) ==
  LET n == Max(1, IF plies = 0 THEN 1 ELSE plies)
  IN IF ~CanUndoPlies(e, n) THEN [e EXCEPT !.ret = "null"]
     ELSE LET popped == SubSeq(e.snapshots, 1, Len(e.snapshots) - n)
              last == popped[Len(popped)]
              e1 == [e EXCEPT !.snapshots = popped]
          IN IF ~ValidFen(last.fen) THEN [e1 EXCEPT !.ret = "throw"]
             ELSE [SetRulesState([e1 EXCEPT !.game = Load(last.fen)], last.rulesState)
                     EXCEPT !.ret = "snapshot"]

ResetSnapshotsEmpty(e) == [e EXCEPT !.snapshots = << >>]

ResetSnapshotsKeepsFirst(e) == [e EXCEPT !.snapshots = <<e.snapshots[1]>>]

\* _resetSnapshots()
ResetSnapshots(e) ==
  [e EXCEPT !.snapshots = <<[fen |-> Fen(e.game), rulesState |-> GetRulesState(e)]>>]

ApplyRemoteStateFenOnly(e, fen, rulesState) ==
  IF ~ValidFen(fen) THEN [e EXCEPT !.ret = "throw"]
  ELSE [PushSnapshot(SetRulesState([e EXCEPT !.game = Load(fen)], NullState))
          EXCEPT !.ret = "none"]

\* applyRemoteState(fen, rulesState): game.load(fen) throws before anything changes
ApplyRemoteStateOf(e, fen, rulesState) ==
  IF ~ValidFen(fen) THEN [e EXCEPT !.ret = "throw"]
  ELSE [PushSnapshot(SetRulesState([e EXCEPT !.game = Load(fen)], rulesState))
          EXCEPT !.ret = "none"]

\* syncTo(fen, rulesState)
SyncToOf(e, fen, rulesState) ==
  IF ~ValidFen(fen) THEN [e EXCEPT !.ret = "throw"]
  ELSE [ResetSnapshots(SetRulesState([e EXCEPT !.game = Load(fen)], rulesState))
          EXCEPT !.ret = "none"]

\* reset()
ResetOf(e) ==
  [ResetSnapshots(SetRulesState([e EXCEPT !.game = StartGame], NullState))
     EXCEPT !.ret = "none"]

\* load(fen)
LoadOf(e, fen) == SyncToOf(e, fen, GetRulesState(e))

SnapshotTurnStepZero(snapshot) == 0

\* the turnStep read from a snapshot: stepRaw === 0 || stepRaw === 1 ? stepRaw : 0
SnapshotTurnStep(snapshot) ==
  IF snapshot.rulesState = 0 \/ snapshot.rulesState = 1 THEN snapshot.rulesState ELSE 0

\* BaseChessRules.getUndoPlies()
BaseGetUndoPlies(e) ==
  LET myColor == IF e.game.turn = "w" THEN "b" ELSE "w"
      nowTurn == e.game.turn
  IN IF nowTurn = myColor THEN 1 ELSE 2

\* TwoStepChessRules.getUndoPlies()
TwoStepGetUndoPlies(e) ==
  IF e.turnStep = 1 THEN 1
  ELSE LET endIndex == Len(e.snapshots) - 1
       IN IF endIndex <= 0 THEN 1
          ELSE IF SnapshotTurnStep(e.snapshots[endIndex]) = 1 THEN 2 ELSE 1

GetUndoPlies(e) ==
  IF e.id = RULESET_IDS.TWO_STEP THEN TwoStepGetUndoPlies(e) ELSE BaseGetUndoPlies(e)

\* canUndo()
CanUndo(e) == Len(e.snapshots) > GetUndoPlies(e)

\* undo()
UndoOf(e) == UndoPliesOf(e, GetUndoPlies(e))

\* the loop of getSuggestedUndoPlies from index i (counted from 0) downwards
RECURSIVE SuggestedFrom(_, _, _, _)
SuggestedFrom(e, color, endIndex, i) ==
  IF i < 0 THEN 1
  ELSE LET snapshot == e.snapshots[i + 1]
           turnColor == snapshot.fen.turn
           turnStep == SnapshotTurnStep(snapshot)
       IN IF turnColor = color /\ turnStep = 0 THEN endIndex - i
          ELSE SuggestedFrom(e, color, endIndex, i - 1)

\* getSuggestedUndoPlies(forColor)
GetSuggestedUndoPlies(e, forColor) ==
  IF forColor # "w" /\ forColor # "b" THEN GetUndoPlies(e)
  ELSE LET endIndex == Len(e.snapshots) - 1
       IN IF endIndex <= 0 THEN 1
          ELSE SuggestedFrom(e, forColor, endIndex, endIndex - 1)

\* getValidMoves(square) for every square: game.moves() of the position held
GetValidMoves(e) == [board |-> e.game.board, turn |-> e.game.turn, ep |-> e.game.ep]

\* what a peer may send as fen and rulesState: the server relays it unchecked
RemoteFens ==
  [board : {[n |-> MaxPly, checked |-> "-", over |-> FALSE]},
   turn : Colors, ep : {"-", "3"}]
RemoteStates == {NullState, 0, 1, 2}
RemoteRulesetIds == {RULESET_IDS.STANDARD, RULESET_IDS.TWO_STEP}
ReceivedMoves == [fen : RemoteFens, rulesetId : RemoteRulesetIds, rulesState : RemoteStates]

\* rulesState || null: { turnStep } is an object and passes
OrNull(rulesState) == rulesState

\* switchRuleset(id, { fen, rulesState }): the engine is replaced before syncTo
\* runs, the active id is written last
SwitchRuleset(c, id, fen, rulesState) ==
  LET next == NewEngine(id)
      synced == SyncToOf(next, fen, OrNull(rulesState))
  IN IF synced.ret = "throw" THEN [engine |-> synced, rulesetIdRef |-> c.rulesetIdRef]
     ELSE [engine |-> synced, rulesetIdRef |-> id]

\* the receive_move handler of the client
ReceiveMoveOf(c, data) ==
  IF data.rulesetId # c.rulesetIdRef
    THEN SwitchRuleset(c, data.rulesetId, data.fen, data.rulesState)
  ELSE [engine |-> ApplyRemoteStateOf(c.engine, data.fen, OrNull(data.rulesState)),
        rulesetIdRef |-> c.rulesetIdRef]

Client == [engine |-> engine, rulesetIdRef |-> rulesetIdRef]

serverVars ==
  <<connected, adapter, rooms, pendingOffers, dataRoomId, now, playerColor,
    inGameRoom, rejectedByMove, emits, ack>>

\* the board is given a move: makeMove
EngineMakeMove(m) ==
  /\ engine.game.board.n < MaxPly
  /\ engine' = MakeMoveOf(engine, m)
  /\ UNCHANGED <<serverVars, rulesetIdRef, sessionVars>>

\* undo_committed arrives: undoPlies
EngineUndoPlies(plies) ==
  /\ engine' = UndoPliesOf(engine, plies)
  /\ UNCHANGED <<serverVars, rulesetIdRef, sessionVars>>

\* applyRemoteState, syncTo, load, reset and undo called on the engine
EngineApplyRemoteState(fen, rulesState) ==
  /\ Len(engine.snapshots) < MaxHistory
  /\ engine' = ApplyRemoteStateOf(engine, fen, rulesState)
  /\ UNCHANGED <<serverVars, rulesetIdRef, sessionVars>>

EngineSyncTo(fen, rulesState) ==
  /\ engine' = SyncToOf(engine, fen, rulesState)
  /\ UNCHANGED <<serverVars, rulesetIdRef, sessionVars>>

EngineLoad(fen) ==
  /\ engine' = LoadOf(engine, fen)
  /\ UNCHANGED <<serverVars, rulesetIdRef, sessionVars>>

EngineReset ==
  /\ engine' = ResetOf(engine)
  /\ UNCHANGED <<serverVars, rulesetIdRef, sessionVars>>

EngineUndo ==
  /\ engine' = UndoOf(engine)
  /\ UNCHANGED <<serverVars, rulesetIdRef, sessionVars>>

\* receive_move arrives at the client
ReceiveMoveAt(data) ==
  /\ data.rulesetId = rulesetIdRef => Len(engine.snapshots) < MaxHistory
  /\ engine' = ReceiveMoveOf(Client, data).engine
  /\ rulesetIdRef' = ReceiveMoveOf(Client, data).rulesetIdRef
  /\ UNCHANGED <<serverVars, sessionVars>>

\* a makeMove that returns the move record
EngineMoveMade(m) ==
  /\ MakeMoveOf(engine, m).ret = "move"
  /\ Len(engine.snapshots) <= MaxTurns
  /\ engine' = MakeMoveOf(engine, m)
  /\ UNCHANGED <<serverVars, rulesetIdRef, sessionVars>>

\* the peer, whose engine holds the same state, makes a move and sends
\* getFen() and getRulesState(): applyRemoteState of what it sent
EnginePeerMove(m) ==
  /\ MakeMoveOf(engine, m).ret = "move"
  /\ Len(engine.snapshots) <= MaxTurns
  /\ engine' = LET peer == MakeMoveOf(engine, m)
               IN ApplyRemoteStateOf(engine, Fen(peer.game), OrNull(GetRulesState(peer)))
  /\ UNCHANGED <<serverVars, rulesetIdRef, sessionVars>>

\* -------------------------------------------------------------------- session
\* Two App clients in one room, each with its own engine, and the socket.io
\* connections between them and the server: events travel in order on each
\* connection, and events of different connections interleave freely.
PeerSockets == {1, 2}
SessionRoom == 1

\* the colour player_assignment told each of them: white for index 0
PeerColor(c) == IF c = 1 THEN "w" ELSE "b"

NoOfferHeld == [offerId |-> NoId, type |-> "none"]

\* the client after switchRuleset(id) in joinRoom
NewApp(id) ==
  [engine |-> NewEngine(id), rulesetIdRef |-> id,
   incomingOffer |-> NoOfferHeld, outgoingOffer |-> NoOfferHeld]

\* the FEN string of a position, as the server compares it: equal strings for
\* equal positions only
FenCode(fen) ==
  1 + ((((fen.board.n * 2 + (IF fen.turn = "w" THEN 0 ELSE 1)) * 3
          + (IF fen.ep = "-" THEN 0 ELSE IF fen.ep = "3" THEN 1 ELSE 2)) * 3
         + (IF fen.board.checked = "-" THEN 0
            ELSE IF fen.board.checked = "w" THEN 1 ELSE 2)) * 2
       + (IF fen.board.over THEN 1 ELSE 0))

\* events a client sends, and events it gets with the data they carry
NoData == [fen |-> Fen(StartGame), rulesetId |-> "none", rulesState |-> NullState]
Sent(ev) ==
  [ev |-> ev, offerId |-> NoId, accept |-> FALSE, fen |-> NoFen, plies |-> NoPlies,
   data |-> NoData]
FromEmit(m, data) ==
  [ev |-> m.ev, offerId |-> m.offerId, type |-> m.type, accept |-> m.accept,
   error |-> m.error, plies |-> m.plies, ok |-> FALSE, data |-> data]
FromAck(ev, a) ==
  [ev |-> ev, offerId |-> a.offerId, type |-> "none", accept |-> FALSE,
   error |-> a.error, plies |-> NoPlies, ok |-> a.ok, data |-> NoData]

\* what the handler of an event of sender puts on the connection to c: the
\* emits addressed to c in the order of the code, then the acknowledgement
Delivered(c, e, ev, sender, data) ==
  LET mine == SelectSeq(e.emits, LAMBDA m : c \in m.to)
  IN [i \in 1..Len(mine) |-> FromEmit(mine[i], data)]
       \o (IF c = sender /\ e.ack.called THEN <<FromAck(ev, e.ack)>> ELSE << >>)

\* the server's handler for an event of client c
ServerEffect(c, msg) ==
  CASE msg.ev = "make_move" -> MoveEffect(c, SessionRoom, FenCode(msg.data.fen))
    [] msg.ev = "offer_action" ->
         OfferEffect(c, SessionRoom, "undo", PeerColor(c), msg.plies, msg.fen)
    [] OTHER -> RespondEffect(c, SessionRoom, msg.offerId, msg.accept, msg.fen)

\* the client's handlers: receive_move, offer_received, offer_result,
\* undo_committed, and the acknowledgements of offer_action and respond_offer
HandleEvent(app, msg) ==
  CASE msg.ev = "receive_move" ->
         LET res == ReceiveMoveOf([engine |-> app.engine,
                                   rulesetIdRef |-> app.rulesetIdRef], msg.data)
             switched == msg.data.rulesetId # app.rulesetIdRef
                           /\ res.engine.ret # "throw"
         IN [app EXCEPT !.engine = res.engine,
                        !.rulesetIdRef = res.rulesetIdRef,
                        !.incomingOffer = IF switched THEN NoOfferHeld ELSE @,
                        !.outgoingOffer = IF switched THEN NoOfferHeld ELSE @]
    [] msg.ev = "offer_received" ->
         [app EXCEPT !.incomingOffer = [offerId |-> msg.offerId, type |-> msg.type]]
    [] msg.ev = "offer_result" ->
         [app EXCEPT !.outgoingOffer = IF @.offerId = msg.offerId THEN NoOfferHeld ELSE @,
                     !.incomingOffer = IF @.offerId = msg.offerId THEN NoOfferHeld ELSE @]
    [] msg.ev = "undo_committed" ->
         [app EXCEPT !.engine = UndoPliesOf(@, RequestUndoPlies(msg.plies)),
                     !.incomingOffer = NoOfferHeld,
                     !.outgoingOffer = NoOfferHeld]
    [] msg.ev = "offer_action" ->
         IF msg.ok
         THEN [app EXCEPT !.outgoingOffer = [offerId |-> msg.offerId, type |-> "undo"]]
         ELSE app
    [] msg.ev = "respond_offer" ->
         IF msg.ok \/ msg.error = "OFFER_STALE" \/ msg.error = "OFFER_NOT_FOUND"
         THEN [app EXCEPT !.incomingOffer = NoOfferHeld]
         ELSE app
    [] OTHER -> app

\* the moves tried on the board in a session: legal ones that leave the game
\* open and no en-passant target
SessionMoves == {m \in Moves : m.legal /\ ~m.over /\ ~m.ep}

\* the events on the connection of client c, in either direction
OnConnection(c) == Len(outbox[c]) + Len(inbox[c])

\* onDrop: a move of the client's own colour, made and sent
PeerMakesMove(c, m) ==
  LET app == apps[c]
      moved == MakeMoveOf(app.engine, m)
  IN /\ ~IsGameOver(app.engine.game)
     /\ app.engine.game.turn = PeerColor(c)
     /\ app.engine.game.board.n < MaxSessionPly
     /\ OnConnection(c) < MaxInFlight
     /\ moved.ret = "move"
     /\ apps' = [apps EXCEPT ![c] =
                   [app EXCEPT !.engine = moved,
                               !.incomingOffer = IF @.type = "undo" THEN NoOfferHeld
                                                 ELSE @]]
     /\ outbox' = [outbox EXCEPT ![c] =
                     Append(@, [Sent("make_move") EXCEPT
                                  !.data = [fen |-> Fen(moved.game),
                                            rulesetId |-> app.rulesetIdRef,
                                            rulesState |-> GetRulesState(moved)]])]
     /\ UNCHANGED <<inbox, serverVars, engine, rulesetIdRef>>

\* requestUndo
PeerRequestsUndo(c) ==
  LET app == apps[c]
      plies == RequestUndoPlies(GetSuggestedUndoPlies(app.engine, PeerColor(c)))
  IN /\ ~IsGameOver(app.engine.game)
     /\ CanUndoPlies(app.engine, plies)
     /\ app.incomingOffer = NoOfferHeld
     /\ app.outgoingOffer = NoOfferHeld
     /\ now < MaxTime
     /\ OnConnection(c) < MaxInFlight
     /\ outbox' = [outbox EXCEPT ![c] =
                     Append(@, [Sent("offer_action") EXCEPT
                                  !.plies = plies,
                                  !.fen = FenCode(Fen(app.engine.game))])]
     /\ UNCHANGED <<apps, inbox, serverVars, engine, rulesetIdRef>>

\* respondOffer(accept)
PeerResponds(c, accept) ==
  LET app == apps[c]
  IN /\ app.incomingOffer # NoOfferHeld
     /\ OnConnection(c) < MaxInFlight
     /\ outbox' = [outbox EXCEPT ![c] =
                     Append(@, [Sent("respond_offer") EXCEPT
                                  !.offerId = app.incomingOffer.offerId,
                                  !.accept = accept,
                                  !.fen = FenCode(Fen(app.engine.game))])]
     /\ UNCHANGED <<apps, inbox, serverVars, engine, rulesetIdRef>>

\* the server handles the next event of client c; Date.now() has advanced when
\* the next offer is created
ServerHandles(c) ==
  /\ outbox[c] # << >>
  /\ LET msg == Head(outbox[c])
         e == ServerEffect(c, msg)
     IN /\ Apply(e)
        /\ inbox' = [d \in PeerSockets |->
                       inbox[d] \o Delivered(d, e, msg.ev, c, msg.data)]
        /\ now' = IF msg.ev = "offer_action" /\ e.ack.ok THEN now + 1 ELSE now
  /\ outbox' = [outbox EXCEPT ![c] = Tail(@)]
  /\ UNCHANGED <<apps, engine, rulesetIdRef, connected, playerColor, inGameRoom,
                 rejectedByMove>>

\* client c handles the next event the server sent it
PeerHandles(c) ==
  /\ inbox[c] # << >>
  /\ apps' = [apps EXCEPT ![c] = HandleEvent(@, Head(inbox[c]))]
  /\ inbox' = [inbox EXCEPT ![c] = Tail(@)]
  /\ UNCHANGED <<outbox, serverVars, engine, rulesetIdRef>>

\* -------------------------------------------------------------- specification
Init ==
  /\ connected = [s \in Sockets |-> "unborn"]
  /\ adapter = [r \in Rooms |-> {}]
  /\ rooms = [r \in Rooms |-> NoRoomRec]
  /\ pendingOffers = [r \in Rooms |-> NoOffer]
  /\ dataRoomId = [s \in Sockets |-> NoRoom]
  /\ now = 0
  /\ playerColor = [s \in Sockets |-> "none"]
  /\ inGameRoom = [s \in Sockets |-> NoRoom]
  /\ rejectedByMove = {}
  /\ emits = << >>
  /\ ack = NoAck
  /\ engine = NewEngine(RULESET_IDS.STANDARD)
  /\ rulesetIdRef = RULESET_IDS.STANDARD
  /\ apps = [c \in PeerSockets |-> NewApp(RULESET_IDS.STANDARD)]
  /\ outbox = [c \in PeerSockets |-> << >>]
  /\ inbox = [c \in PeerSockets |-> << >>]

\* the session server: every handler, any socket.io client
Next ==
  \/ \E s \in Sockets : Connect(s)
  \/ \E s \in Sockets, r \in OfferRooms : JoinRoom(s, r)
  \/ \E s \in Sockets, r \in RoomInputs : LeaveRoom(s, r)
  \/ \E s \in Sockets : Disconnect(s)
  \/ \E s \in Sockets, q \in OfferRequests :
       OfferAction(s, q.roomId, q.type, q.fromColor, q.plies, q.baseFen)
  \/ \E s \in Sockets, q \in RespondRequests :
       RespondOffer(s, q.roomId, q.offerId, q.accept, q.currentFen)
  \/ \E s \in Sockets, r \in RoomInputs, fen \in Fens : MakeMove(s, r, fen)
  \/ Tick

Spec == Init /\ [][Next]_vars

\* undo negotiation, with the offers that moves reject recorded
UndoRequests == {q \in OfferRequests : q.type = "undo" /\ q.fromColor = "w" /\ q.plies = 1}

NextRecorded ==
  \/ \E s \in Sockets : Connect(s)
  \/ \E s \in Sockets, r \in OfferRooms : JoinRoom(s, r)
  \/ \E s \in Sockets, r \in RoomInputs : LeaveRoom(s, r)
  \/ \E s \in Sockets : Disconnect(s)
  \/ \E s \in Sockets, q \in UndoRequests :
       OfferAction(s, q.roomId, q.type, q.fromColor, q.plies, q.baseFen)
  \/ \E s \in Sockets, q \in RespondRequests :
       RespondOffer(s, q.roomId, q.offerId, q.accept, q.currentFen)
  \/ \E s \in Sockets, r \in RoomInputs, fen \in Fens : MakeMoveRecorded(s, r, fen)
  \/ Tick

SpecRecorded == Init /\ [][NextRecorded]_vars

\* every event a socket may send about a room, whether it has joined it or not
NextEvents ==
  \/ \E s \in Sockets : Connect(s)
  \/ \E s \in Sockets, r \in OfferRooms : JoinRoom(s, r)
  \/ \E s \in Sockets, r \in RoomInputs : LeaveRoom(s, r)
  \/ \E s \in Sockets : Disconnect(s)
  \/ \E s \in Sockets, q \in UndoRequests :
       OfferAction(s, q.roomId, q.type, q.fromColor, q.plies, q.baseFen)
  \/ \E s \in Sockets, q \in RespondRequests :
       RespondOffer(s, q.roomId, q.offerId, q.accept, q.currentFen)
  \/ \E s \in Sockets, r \in RoomInputs, fen \in Fens : MakeMove(s, r, fen)
  \/ \E s \in Sockets, r \in RoomInputs : ResetGame(s, r)
  \/ \E s \in Sockets, r \in RoomInputs, color \in ColorInputs : ResignGame(s, r, color)

SpecEvents == Init /\ [][NextEvents]_vars

\* membership: any socket.io clients join, leave and disconnect in all rooms
NextRooms ==
  \/ \E s \in Sockets : Connect(s)
  \/ \E s \in Sockets, r \in Rooms : JoinRoom(s, r)
  \/ \E s \in Sockets, r \in Rooms : LeaveRoom(s, r)
  \/ \E s \in Sockets : Disconnect(s)

SpecRooms == Init /\ [][NextRooms]_vars

\* membership and colours: every socket is an App client
NextApp ==
  \/ \E s \in Sockets : Connect(s)
  \/ \E s \in Sockets, r \in Rooms : AppJoinRoom(s, r)
  \/ \E s \in Sockets : AppLeaveRoom(s)
  \/ \E s \in Sockets : Disconnect(s)

SpecApp == Init /\ [][NextApp]_vars

\* the rules engine of one client, of either variant
InitEngine ==
  /\ connected = [s \in Sockets |-> "unborn"]
  /\ adapter = [r \in Rooms |-> {}]
  /\ rooms = [r \in Rooms |-> NoRoomRec]
  /\ pendingOffers = [r \in Rooms |-> NoOffer]
  /\ dataRoomId = [s \in Sockets |-> NoRoom]
  /\ now = 0
  /\ playerColor = [s \in Sockets |-> "none"]
  /\ inGameRoom = [s \in Sockets |-> NoRoom]
  /\ rejectedByMove = {}
  /\ emits = << >>
  /\ ack = NoAck
  /\ engine \in {NewEngine(RULESET_IDS.STANDARD), NewEngine(RULESET_IDS.TWO_STEP)}
  /\ rulesetIdRef = engine.id
  /\ apps = [c \in PeerSockets |-> NewApp(RULESET_IDS.STANDARD)]
  /\ outbox = [c \in PeerSockets |-> << >>]
  /\ inbox = [c \in PeerSockets |-> << >>]

NextEngine ==
  \/ \E m \in Moves : EngineMakeMove(m)
  \/ \E plies \in 0..MaxUndo : EngineUndoPlies(plies)

SpecEngine == InitEngine /\ [][NextEngine]_vars

\* one client: every call the engine offers, and the moves it receives
NextClient ==
  \/ \E m \in Moves : EngineMakeMove(m)
  \/ \E plies \in 0..MaxUndo : EngineUndoPlies(plies)
  \/ EngineUndo
  \/ \E fen \in RemoteFens, rulesState \in RemoteStates :
       EngineApplyRemoteState(fen, rulesState)
  \/ \E fen \in RemoteFens, rulesState \in RemoteStates : EngineSyncTo(fen, rulesState)
  \/ \E fen \in RemoteFens : EngineLoad(fen)
  \/ EngineReset
  \/ \E data \in ReceivedMoves : ReceiveMoveAt(data)

SpecClient == InitEngine /\ [][NextClient]_vars

\* a game of two engines in step: the moves made here, the moves the peer
\* made, and the undos the server committed
NextTurns ==
  \/ \E m \in Moves : EngineMoveMade(m)
  \/ \E m \in Moves : EnginePeerMove(m)
  \/ \E plies \in 1..CLIENT_MAX_PLIES : EngineUndoPlies(plies)

SpecTurns == InitEngine /\ [][NextTurns]_vars

\* a session: both clients have joined SessionRoom, with the same ruleset
\* chosen in the lobby (InitSession) or with any two (InitMixed)
Joined(variants) ==
  /\ connected = [s \in Sockets |-> IF s \in PeerSockets THEN "open" ELSE "unborn"]
  /\ adapter = [r \in Rooms |-> IF r = SessionRoom THEN PeerSockets ELSE {}]
  /\ rooms = [r \in Rooms |-> IF r = SessionRoom
                              THEN [exists |-> TRUE, players |-> <<1, 2>>]
                              ELSE NoRoomRec]
  /\ pendingOffers = [r \in Rooms |-> NoOffer]
  /\ dataRoomId = [s \in Sockets |-> IF s \in PeerSockets THEN SessionRoom ELSE NoRoom]
  /\ now = 0
  /\ playerColor = [s \in Sockets |-> IF s \in PeerSockets THEN PeerColor(s) ELSE "none"]
  /\ inGameRoom = [s \in Sockets |-> IF s \in PeerSockets THEN SessionRoom ELSE NoRoom]
  /\ rejectedByMove = {}
  /\ emits = << >>
  /\ ack = NoAck
  /\ engine = NewEngine(RULESET_IDS.STANDARD)
  /\ rulesetIdRef = RULESET_IDS.STANDARD
  /\ apps \in variants
  /\ outbox = [c \in PeerSockets |-> << >>]
  /\ inbox = [c \in PeerSockets |-> << >>]

InitSession == Joined({[c \in PeerSockets |-> NewApp(id)] : id \in RemoteRulesetIds})
InitMixed == Joined([PeerSockets -> {NewApp(id) : id \in RemoteRulesetIds}])

NextSession ==
  \/ \E c \in PeerSockets, m \in SessionMoves : PeerMakesMove(c, m)
  \/ \E c \in PeerSockets : PeerRequestsUndo(c)
  \/ \E c \in PeerSockets, accept \in BOOLEAN : PeerResponds(c, accept)
  \/ \E c \in PeerSockets : ServerHandles(c)
  \/ \E c \in PeerSockets : PeerHandles(c)

SpecSession == InitSession /\ [][NextSession]_vars
SpecMixed == InitMixed /\ [][NextSession]_vars


\* ===================================================================== claims

OpenSockets == {s \in Sockets : Open(s)}
HasEv(ms, ev) == \E i \in 1..Len(ms) : ms[i].ev = ev
MsgsOf(ms, ev) == {ms[i] : i \in {j \in 1..Len(ms) : ms[j].ev = ev}}

\* C1: after any sequence of join_room, leave_room and disconnect events, from
\* sockets that may join a second room before leaving or disconnecting, every
\* room's players list has at most two entries.
C1_PlayersAtMostTwo == \A r \in Rooms : Len(rooms[r].players) <= ROOM_CAPACITY

\* C6: every participant of a room holds the colour of its current index in the
\* room's players list: white iff index 0, black iff index 1.
C6_ColorIsIndexDerived ==
  \A r \in Rooms : \A i \in 1..Len(rooms[r].players) :
    LET s == rooms[r].players[i]
    IN /\ playerColor[s] = "w" <=> i - 1 = 0
       /\ playerColor[s] = "b" <=> i - 1 = 1

\* C2, as the specification states it: an offer_action received while the room's offer is pending
\* is answered OFFER_PENDING, leaves the pending offer as it is and emits no
\* offer_received.
C2_PendingAnswersOfferPending ==
  \A s \in OpenSockets, q \in OfferRequests :
    (q.roomId \in Rooms /\ pendingOffers[q.roomId] # NoOffer) =>
      LET e == OfferEffect(s, q.roomId, q.type, q.fromColor, q.plies, q.baseFen)
      IN /\ e.ack = AckErr("OFFER_PENDING")
         /\ e.pendingOffers = pendingOffers
         /\ ~HasEv(e.emits, "offer_received")

\* C2, as the server behaves: an offer_action received while the room's offer is pending
\* fails, with OFFER_PENDING when it is well-formed and the room has two
\* transport members and with BAD_REQUEST or OPPONENT_NOT_PRESENT otherwise,
\* leaves the pending offer as it is and emits no offer_received.
C2_PendingOfferIsKept ==
  \A s \in OpenSockets, q \in OfferRequests :
    (q.roomId \in Rooms /\ pendingOffers[q.roomId] # NoOffer) =>
      LET e == OfferEffect(s, q.roomId, q.type, q.fromColor, q.plies, q.baseFen)
          wellFormed == q.type = "draw" \/ (q.type = "undo" /\ q.baseFen # NoFen)
      IN /\ e.ack.called /\ ~e.ack.ok
         /\ e.ack.error \in {"OFFER_PENDING", "BAD_REQUEST", "OPPONENT_NOT_PRESENT"}
         /\ (wellFormed /\ Cardinality(adapter[q.roomId]) >= ROOM_CAPACITY)
              => e.ack.error = "OFFER_PENDING"
         /\ e.pendingOffers = pendingOffers
         /\ ~HasEv(e.emits, "offer_received")

C2_Witness ==
  /\ ack = AckErr("OFFER_PENDING")
  /\ \E r \in Rooms : pendingOffers[r] # NoOffer

\* C3: undo_committed is emitted exactly when a socket other than the proposer
\* sends respond_offer with the id of the room's pending Undo offer, accept =
\* true and a currentFen equal to the offer's baseFen; no other event emits it.
C3_UndoCommittedIff ==
  /\ \A s \in OpenSockets, q \in RespondRequests :
       LET e == RespondEffect(s, q.roomId, q.offerId, q.accept, q.currentFen)
           p == PendingAt(pendingOffers, q.roomId)
       IN /\ HasEv(e.emits, "undo_committed") <=>
               /\ p.type = "undo"
               /\ q.offerId = p.id
               /\ s # p.from
               /\ q.accept
               /\ q.currentFen = p.baseFen
          /\ \A m \in MsgsOf(e.emits, "undo_committed") : m.offerId = p.id
  /\ \A s \in OpenSockets :
       /\ ~HasEv(DisconnectEffect(s).emits, "undo_committed")
       /\ \A r \in Rooms :
            /\ ~HasEv(JoinEffect(s, r).emits, "undo_committed")
            /\ ~HasEv(LeaveEffect(s, r).emits, "undo_committed")
            /\ \A f \in Fens : ~HasEv(MoveEffect(s, r, f).emits, "undo_committed")
       /\ \A q \in OfferRequests :
            ~HasEv(OfferEffect(s, q.roomId, q.type, q.fromColor, q.plies, q.baseFen).emits,
                   "undo_committed")

C3_Witness == Emitted("undo_committed") /\ ack = AckOk

\* C4: a make_move arriving while the room's Undo offer is pending clears the
\* offer and broadcasts offer_result{accept: false, OFFER_REJECTED_BY_MOVE} to
\* the room; every later respond_offer carrying that offer's id fails
\* OFFER_NOT_FOUND and produces no undo_committed.
C4_RejectedByMoveStaysRejected ==
  /\ \A s \in OpenSockets, r \in Rooms, f \in Fens :
       pendingOffers[r].type = "undo" =>
         LET e == MoveEffect(s, r, f)
         IN /\ e.pendingOffers[r] = NoOffer
            /\ \E m \in MsgsOf(e.emits, "offer_result") :
                 /\ m.offerId = pendingOffers[r].id
                 /\ ~m.accept
                 /\ m.error = "OFFER_REJECTED_BY_MOVE"
                 /\ m.to = adapter[r]
  /\ \A s \in OpenSockets, q \in RespondRequests :
       q.offerId \in rejectedByMove =>
         LET e == RespondEffect(s, q.roomId, q.offerId, q.accept, q.currentFen)
         IN /\ e.ack = AckErr("OFFER_NOT_FOUND")
            /\ ~HasEv(e.emits, "undo_committed")

\* C5: a make_move arriving while a Draw offer is pending leaves the offer as it
\* is and emits no offer_result; whatever moves were made, a socket other than
\* the proposer that accepts the offer clears it and draw_committed is
\* broadcast to the room.
C5_DrawSurvivesMove ==
  \A r \in Rooms :
    pendingOffers[r].type = "draw" =>
      /\ \A s \in OpenSockets, f \in Fens :
           LET e == MoveEffect(s, r, f)
           IN /\ e.pendingOffers = pendingOffers
              /\ ~HasEv(e.emits, "offer_result")
      /\ \A s \in OpenSockets \ {pendingOffers[r].from}, f \in FenInputs :
           LET e == RespondEffect(s, r, pendingOffers[r].id, TRUE, f)
           IN /\ e.ack = AckOk
              /\ e.pendingOffers[r] = NoOffer
              /\ \E m \in MsgsOf(e.emits, "draw_committed") :
                   m.offerId = pendingOffers[r].id /\ m.to = adapter[r]

C5_Witness ==
  /\ HasEv(emits, "receive_move")
  /\ \E r \in Rooms : pendingOffers[r].type = "draw"

\* C7: a join_room for a room that already has two members is answered
\* {ok: false, error: ROOM_FULL} and changes neither the players lists, nor
\* socket.data.roomId, nor any pending offer.
C7_RoomFullChangesNothing ==
  \A s \in OpenSockets, r \in Rooms :
    Cardinality(adapter[r]) >= ROOM_CAPACITY =>
      LET e == JoinEffect(s, r)
      IN /\ e.ack = AckErr("ROOM_FULL")
         /\ e.rooms = rooms
         /\ e.adapter = adapter
         /\ e.dataRoomId = dataRoomId
         /\ e.pendingOffers = pendingOffers

C7_Witness ==
  /\ ack = AckErr("ROOM_FULL")
  /\ \E r \in Rooms : pendingOffers[r] # NoOffer /\ Cardinality(adapter[r]) = ROOM_CAPACITY

BlankReason(ms) == [i \in 1..Len(ms) |-> [ms[i] EXCEPT !.reason = "none"]]

\* C9: for every participant of a room, handling its disconnect gives the same
\* rooms, the same pendingOffers and the same broadcasts, apart from the reason
\* field, as handling its leave_room for that room.
C9_DisconnectSameAsLeave ==
  \A r \in Rooms : \A s \in OpenSockets :
    (rooms[r].exists /\ Includes(rooms[r].players, s)) =>
      LET d == DisconnectEffect(s)
          l == LeaveEffect(s, r)
      IN /\ d.rooms = l.rooms
         /\ d.pendingOffers = l.pendingOffers
         /\ BlankReason(d.emits) = BlankReason(l.emits)

\* C10: for an Undo proposal the plies stored in the pending offer, sent in
\* offer_received and carried by undo_committed equal the plies the proposer
\* sent, for every value 1..4 that requestUndo can send.
C10_SuggestedPliesCommitted ==
  /\ \A s \in OpenSockets, q \in OfferRequests, pliesRaw \in 1..CLIENT_MAX_PLIES :
       LET e == OfferEffect(s, q.roomId, q.type, q.fromColor, q.plies, q.baseFen)
       IN (q.type = "undo" /\ q.plies = RequestUndoPlies(pliesRaw) /\ e.ack.ok) =>
            /\ e.pendingOffers[q.roomId].plies = q.plies
            /\ \A m \in MsgsOf(e.emits, "offer_received") : m.plies = q.plies
  /\ \A s \in OpenSockets, q \in RespondRequests :
       LET e == RespondEffect(s, q.roomId, q.offerId, q.accept, q.currentFen)
       IN \A m \in MsgsOf(e.emits, "undo_committed") :
            m.plies = PendingAt(pendingOffers, q.roomId).plies

\* C11: when a socket other than the proposer accepts the room's pending Undo
\* offer with a currentFen that is missing or differs from the offer's baseFen,
\* the offer is cleared, offer_result{accept: false, error: OFFER_STALE} goes to
\* every member of the room, the call is answered OFFER_STALE and no
\* undo_committed is emitted.
C11_StaleAcceptClearsOffer ==
  \A r \in Rooms :
    pendingOffers[r].type = "undo" =>
      \A s \in OpenSockets \ {pendingOffers[r].from}, f \in FenInputs :
        (f = NoFen \/ f # pendingOffers[r].baseFen) =>
          LET e == RespondEffect(s, r, pendingOffers[r].id, TRUE, f)
          IN /\ e.pendingOffers[r] = NoOffer
             /\ e.ack = AckErr("OFFER_STALE")
             /\ e.emits = <<OfferResult(adapter[r], pendingOffers[r].id, "undo", FALSE,
                                        "OFFER_STALE")>>
             /\ ~HasEv(e.emits, "undo_committed")

C11_Witness ==
  /\ ack = AckErr("OFFER_STALE")
  /\ \E m \in MsgsOf(emits, "offer_result") :
       m.error = "OFFER_STALE" /\ ~m.accept /\ Cardinality(m.to) = ROOM_CAPACITY
  /\ \A r \in Rooms : pendingOffers[r] = NoOffer

\* C12: a respond_offer for the room's pending offer sent by its proposer, with
\* accept true or false, is answered CANNOT_ACCEPT_OWN, leaves the offer
\* pending and emits neither offer_result nor a commit event.
C12_ProposerCannotRespond ==
  \A r \in Rooms :
    (pendingOffers[r] # NoOffer /\ pendingOffers[r].from \in OpenSockets) =>
      \A accept \in BOOLEAN, f \in FenInputs :
        LET e == RespondEffect(pendingOffers[r].from, r, pendingOffers[r].id, accept, f)
        IN /\ e.ack = AckErr("CANNOT_ACCEPT_OWN")
           /\ e.pendingOffers = pendingOffers
           /\ e.emits = << >>

C12_Witness ==
  /\ ack = AckErr("CANNOT_ACCEPT_OWN")
  /\ \E r \in Rooms : pendingOffers[r] # NoOffer
  /\ emits = << >>

\* C13: a respond_offer by a socket other than the proposer that is not stale
\* clears the offer and sends offer_result{accept} to every member of the room;
\* with accept true exactly one commit event of the offer's type follows the
\* offer_result (undo_committed with the offer's plies, or draw_committed); with
\* accept false no commit event is emitted.
C13_ResolutionCommitsOnce ==
  \A r \in Rooms :
    pendingOffers[r] # NoOffer =>
      \A s \in OpenSockets \ {pendingOffers[r].from}, accept \in BOOLEAN, f \in FenInputs :
        LET p == pendingOffers[r]
            e == RespondEffect(s, r, p.id, accept, f)
            stale == accept /\ p.type = "undo" /\ (f = NoFen \/ f # p.baseFen)
        IN ~stale =>
             /\ e.pendingOffers[r] = NoOffer
             /\ e.ack = AckOk
             /\ Len(e.emits) = (IF accept THEN 2 ELSE 1)
             /\ e.emits[1].ev = "offer_result"
             /\ e.emits[1].offerId = p.id /\ e.emits[1].type = p.type
             /\ e.emits[1].accept = accept /\ e.emits[1].error = "none"
             /\ e.emits[1].to = adapter[r]
             /\ accept =>
                  /\ e.emits[2].to = adapter[r] /\ e.emits[2].offerId = p.id
                  /\ p.type = "undo" =>
                       e.emits[2].ev = "undo_committed" /\ e.emits[2].plies = p.plies
                  /\ p.type = "draw" => e.emits[2].ev = "draw_committed"

\* an accepted Undo offer of two plies has been committed
C13_Witness ==
  /\ ack = AckOk
  /\ Len(emits) = 2
  /\ emits[1].ev = "offer_result" /\ emits[1].accept
  /\ emits[2].ev = "undo_committed" /\ emits[2].plies = SERVER_MAX_PLIES

\* C14: a well-formed offer_action is answered OPPONENT_NOT_PRESENT whenever
\* the room's players list has fewer than two entries, and is never answered
\* so when the players list has two entries.
C14_OpponentNotPresentIffFewPlayers ==
  \A s \in OpenSockets, q \in OfferRequests :
    (q.roomId \in Rooms /\ (q.type = "draw" \/ (q.type = "undo" /\ q.baseFen # NoFen))) =>
      LET e == OfferEffect(s, q.roomId, q.type, q.fromColor, q.plies, q.baseFen)
          n == Len(rooms[q.roomId].players)
      IN /\ n < ROOM_CAPACITY => e.ack = AckErr("OPPONENT_NOT_PRESENT")
         /\ n = ROOM_CAPACITY => e.ack.error # "OPPONENT_NOT_PRESENT"

\* C15: no pending offer exists for a room without a room record; when the
\* last participant leaves or disconnects, the room record and the pending
\* offer are both deleted; the next join to that room id is recorded at index 0
\* and assigned white.
C15_EmptyRoomIsDeleted ==
  /\ \A r \in Rooms : ~rooms[r].exists => pendingOffers[r] = NoOffer
  /\ \A r \in Rooms, s \in OpenSockets :
       rooms[r].players = <<s>> =>
         /\ ~LeaveEffect(s, r).rooms[r].exists
         /\ LeaveEffect(s, r).pendingOffers[r] = NoOffer
         /\ ~DisconnectEffect(s).rooms[r].exists
         /\ DisconnectEffect(s).pendingOffers[r] = NoOffer
  /\ \A r \in Rooms, s \in OpenSockets :
       ~rooms[r].exists =>
         LET e == JoinEffect(s, r)
         IN /\ e.rooms[r].players = <<s>>
            /\ \E m \in MsgsOf(e.emits, "player_assignment") :
                 m.to = {s} /\ m.playerIndex = 0 /\ m.color = "w"

\* C16: make_move first rejects a pending Undo offer, emitting its
\* offer_result, and only then emits receive_move, once, with the payload it
\* was given, to the members of the room other than the sender.
C16_MoveRelayedAfterHook ==
  \A s \in OpenSockets, r \in Rooms \cup {NoRoom}, f \in Fens :
    LET e == MoveEffect(s, r, f)
        n == Len(e.emits)
        others == IF r \in Rooms THEN adapter[r] \ {s} ELSE {}
    IN /\ n >= 1
       /\ e.emits[n].ev = "receive_move"
       /\ e.emits[n].fen = f
       /\ e.emits[n].to = others
       /\ s \notin e.emits[n].to
       /\ \A i \in 1..(n - 1) : e.emits[i].ev = "offer_result"
       /\ PendingAt(pendingOffers, r).type = "undo" =>
            /\ n = 2
            /\ e.emits[1].error = "OFFER_REJECTED_BY_MOVE"
            /\ e.emits[1].offerId = pendingOffers[r].id

C16_Witness ==
  /\ Len(emits) = 2
  /\ emits[1].ev = "offer_result" /\ emits[1].error = "OFFER_REJECTED_BY_MOVE"
  /\ emits[2].ev = "receive_move" /\ Cardinality(emits[2].to) = 1
  /\ Cardinality(emits[1].to) = ROOM_CAPACITY

\* C17: whenever makeMove returns null, in either variant, the engine's
\* position, side to move, turnStep and snapshot history are as before the
\* call.
C17_NullMoveChangesNothing ==
  [][((\E m \in Moves : EngineMakeMove(m)) /\ engine'.ret = "null") =>
       /\ Fen(engine'.game) = Fen(engine.game)
       /\ engine'.game.turn = engine.game.turn
       /\ engine'.turnStep = engine.turnStep
       /\ engine'.snapshots = engine.snapshots]_vars

\* C18: for every n >= 1, undoPlies(n) returns null and changes neither the
\* history nor the position nor the variant state when the history has at most
\* n snapshots; otherwise the history loses exactly its last n snapshots and
\* the position and the variant state are those of the snapshot n below the
\* top.
C18_UndoPliesRestoresSnapshot ==
  \A n \in 1..MaxUndo :
    LET e == UndoPliesOf(engine, n)
        len == Len(engine.snapshots)
    IN IF len <= n
       THEN /\ e.ret = "null"
            /\ e.snapshots = engine.snapshots
            /\ e.game = engine.game
            /\ e.turnStep = engine.turnStep
       ELSE /\ e.ret = "snapshot"
            /\ Len(e.snapshots) = len - n
            /\ e.snapshots = SubSeq(engine.snapshots, 1, len - n)
            /\ Fen(e.game) = engine.snapshots[len - n].fen
            /\ GetRulesState(e) = engine.snapshots[len - n].rulesState

\* an undo has restored a snapshot taken in the middle of a two-step turn
C18_Witness ==
  /\ engine.ret = "snapshot"
  /\ engine.id = RULESET_IDS.TWO_STEP
  /\ engine.turnStep = 1
  /\ Len(engine.snapshots) >= 2
  /\ Fen(engine.game) = engine.snapshots[Len(engine.snapshots)].fen

\* C19: in the TwoStep variant a move played at turnStep 0 that puts the
\* opponent in check succeeds and ends the turn: afterwards the opponent is to
\* move and turnStep is 0.
C19_CheckingFirstStepEndsTurn ==
  (engine.id = RULESET_IDS.TWO_STEP /\ engine.turnStep = 0) =>
    \A m \in Moves :
      (m.legal /\ m.check) =>
        LET e == MakeMoveOf(engine, m)
        IN /\ e.ret = "move"
           /\ e.game.turn = Opposite(engine.game.turn)
           /\ e.turnStep = 0

\* a first step has just given check (the game goes on) and the turn is over
C19_Witness ==
  LET len == Len(engine.snapshots)
  IN /\ engine.id = RULESET_IDS.TWO_STEP
     /\ engine.ret = "move"
     /\ len >= 2
     /\ engine.snapshots[len - 1].rulesState = 0
     /\ engine.snapshots[len - 1].fen.turn = Opposite(engine.game.turn)
     /\ engine.snapshots[len].fen = Fen(engine.game)
     /\ InCheck(engine.game) /\ ~IsGameOver(engine.game)
     /\ engine.turnStep = 0

\* C20: in the TwoStep variant, when makeMove returns the move for a move
\* played at turnStep 0 that neither gives check nor ends the game, the mover
\* is to move again and turnStep is 1; when it returns the move for a move
\* played at turnStep 1, the opponent is to move and turnStep is 0, check or not.
C20_TwoStepTurnOrder ==
  engine.id = RULESET_IDS.TWO_STEP =>
    \A m \in Moves :
      LET e == MakeMoveOf(engine, m)
      IN e.ret = "move" =>
           /\ (engine.turnStep = 0 /\ ~m.check /\ ~m.over) =>
                (e.game.turn = engine.game.turn /\ e.turnStep = 1)
           /\ engine.turnStep = 1 =>
                (e.game.turn = Opposite(engine.game.turn) /\ e.turnStep = 0)

\* a second step has just given check (the game goes on) and the turn is over
C20_Witness ==
  LET len == Len(engine.snapshots)
  IN /\ engine.id = RULESET_IDS.TWO_STEP
     /\ engine.ret = "move"
     /\ len >= 3
     /\ engine.snapshots[len - 1].rulesState = 1
     /\ engine.snapshots[len - 1].fen.turn = Opposite(engine.game.turn)
     /\ engine.snapshots[len - 2].fen.turn = Opposite(engine.game.turn)
     /\ engine.snapshots[len].fen = Fen(engine.game)
     /\ InCheck(engine.game) /\ ~IsGameOver(engine.game)
     /\ engine.turnStep = 0

\* C21: the snapshot history of an engine always has at least one entry, after
\* any sequence of makeMove, applyRemoteState, syncTo, load, reset, undo and
\* undoPlies calls, successful or failing, on either variant.
C21_SnapshotsNeverEmpty == Len(engine.snapshots) >= 1

\* an undo has taken a TwoStep history down to its single first entry, and a
\* further undo has failed on it
C21_Witness ==
  /\ engine.id = RULESET_IDS.TWO_STEP
  /\ engine.ret = "null"
  /\ Len(engine.snapshots) = 1
  /\ engine.game = StartGame
  /\ ~CanUndoPlies(engine, 1)

\* C22: when a client receives a move whose rulesetId differs from its active
\* one, its engine is replaced by an engine of the remote variant positioned at
\* the received FEN and rules state, its local history is discarded, and its
\* active ruleset id equals the sender's afterwards.
C22_SwitchFollowsSender ==
  [][\A data \in ReceivedMoves :
       (ReceiveMoveAt(data) /\ data.rulesetId # rulesetIdRef)
         => /\ engine'.id = data.rulesetId
            /\ Fen(engine'.game) = data.fen
            /\ (engine'.id = RULESET_IDS.TWO_STEP /\ data.rulesState \in {0, 1})
                 => engine'.turnStep = data.rulesState
            /\ Len(engine'.snapshots) = 1
            /\ rulesetIdRef' = data.rulesetId]_vars

\* the history is the single snapshot of what the engine holds
SingleCurrentSnapshot(e) ==
  /\ Len(e.snapshots) = 1
  /\ e.snapshots[1] = [fen |-> Fen(e.game), rulesState |-> GetRulesState(e)]

\* C23: after reset(), after syncTo(fen, rulesState) and after a variant
\* switch, the snapshot history has exactly one entry and that entry equals the
\* engine's current position and variant state.
C23_ResetLeavesOneCurrentSnapshot ==
  /\ SingleCurrentSnapshot(ResetOf(engine))
  /\ \A fen \in RemoteFens, rulesState \in RemoteStates :
       SyncToOf(engine, fen, rulesState).ret # "throw"
         => SingleCurrentSnapshot(SyncToOf(engine, fen, rulesState))
  /\ \A data \in ReceivedMoves :
       data.rulesetId # rulesetIdRef
         => SingleCurrentSnapshot(ReceiveMoveOf(Client, data).engine)
  /\ \A id \in RemoteRulesetIds : SingleCurrentSnapshot(NewEngine(id))

\* syncTo has put a TwoStep engine at a received position, second step pending
C23_Witness ==
  /\ engine.id = RULESET_IDS.TWO_STEP
  /\ engine.ret = "none"
  /\ engine.game.board.n = MaxPly
  /\ engine.turnStep = 1
  /\ SingleCurrentSnapshot(engine)

\* engines of the variant id in several states: new, after one makeMove
\* (refused ones included), after a syncTo
OtherEngines(id) ==
  {NewEngine(id)}
    \cup {MakeMoveOf(NewEngine(id), m) : m \in Moves}
    \cup {SyncToOf(NewEngine(id), fen, rulesState) :
            fen \in RemoteFens, rulesState \in RemoteStates}

C25_OfferIdsDiffer ==
  [][\A r \in Rooms :
       (pendingOffers[r].type = "none" /\ pendingOffers'[r].type # "none")
         => pendingOffers'[r].id \notin rejectedByMove]_vars

\* s is open and has not joined room r
Outsider(s, r) == Open(s) /\ ~Includes(rooms[r].players, s) /\ s \notin adapter[r]
Participants(r) == {rooms[r].players[i] : i \in 1..Len(rooms[r].players)}

\* the effect e leaves room r's offer and participants as they are and sends
\* nothing to r's participants
LeavesRoomAlone(e, r) ==
  /\ e.pendingOffers[r] = pendingOffers[r]
  /\ e.rooms[r].players = rooms[r].players
  /\ \A i \in 1..Len(e.emits) : e.emits[i].to \cap Participants(r) = {}

\* C26: an event sent by a socket that is not a current participant of room R
\* (offer_action, respond_offer, make_move, leave_room, reset_game or
\* resign_game naming R) never creates, resolves or deletes R's PendingOffer,
\* never changes R's participants list, and never causes a broadcast to R's
\* participants.
C26_OutsiderLeavesRoomAlone ==
  \A s \in OpenSockets, r \in OfferRooms :
    Outsider(s, r) =>
      /\ \A q \in OfferRequests :
           q.roomId = r =>
             LeavesRoomAlone(OfferEffect(s, r, q.type, q.fromColor, q.plies, q.baseFen), r)
      /\ \A q \in RespondRequests :
           q.roomId = r =>
             LeavesRoomAlone(RespondEffect(s, r, q.offerId, q.accept, q.currentFen), r)
      /\ \A fen \in Fens : LeavesRoomAlone(MoveEffect(s, r, fen), r)
      /\ LeavesRoomAlone(LeaveEffect(s, r), r)
      /\ LeavesRoomAlone(ResetGameEffect(s, r), r)
      /\ \A color \in ColorInputs : LeavesRoomAlone(ResignGameEffect(s, r, color), r)

\* the snapshots strictly below the top whose side to move is color and whose
\* turnStep, a missing one counting as 0, is 0
EarlierTurnStarts(e, color) ==
  {i \in 1..(Len(e.snapshots) - 1) :
     /\ e.snapshots[i].fen.turn = color
     /\ (e.snapshots[i].rulesState = NullState \/ e.snapshots[i].rulesState = 0)}

Nearest(S) == CHOOSE i \in S : \A j \in S : j <= i

C28_StandardSuggestsOneOrTwo ==
  [][engine.id = RULESET_IDS.STANDARD
       => \A c \in Colors :
            GetSuggestedUndoPlies(engine', c)
              = IF engine'.game.turn = Opposite(c) THEN 1 ELSE 2]_vars

\* C29: in the TwoStep variant, for every history reachable from the starting
\* position by successful makeMove, applyRemoteState of a peer's TwoStep moves,
\* and undoPlies, getSuggestedUndoPlies(c) returns a value between 1 and 4
\* inclusive for both colors.
C29_TwoStepSuggestsAtMostFour ==
  engine.id = RULESET_IDS.TWO_STEP
    => \A c \in Colors :
         /\ GetSuggestedUndoPlies(engine, c) >= 1
         /\ GetSuggestedUndoPlies(engine, c) <= CLIENT_MAX_PLIES

\* both sides have taken two steps and the first is to move again: four plies
\* back for it, on a history long enough to hold a longer distance
C29_Witness ==
  /\ engine.id = RULESET_IDS.TWO_STEP
  /\ Len(engine.snapshots) > CLIENT_MAX_PLIES + 1
  /\ engine.turnStep = 0
  /\ engine.ret = "none"
  /\ GetSuggestedUndoPlies(engine, engine.game.turn) = CLIENT_MAX_PLIES

\* C30: the Standard variant's parameterless getUndoPlies() returns 1 when the
\* requesting player has just moved (it is now the opponent's turn) and 2 when
\* it is the requesting player's turn, as its doc comment states; there are
\* reachable states in which it returns 1.  The player who has just made a move
\* is the requesting player whose opponent is to move: after every makeMove
\* that returns the move record, getUndoPlies() is 1.
C30_UndoPliesOneAfterOwnMove ==
  [][(engine.id = RULESET_IDS.STANDARD
        /\ (\E m \in Moves : EngineMakeMove(m))
        /\ engine'.ret = "move")
       => GetUndoPlies(engine') = 1]_vars

\* the effect e has left the server's tables as they are and has sent nothing
NothingDone(e) ==
  /\ e.rooms = rooms
  /\ e.pendingOffers = pendingOffers
  /\ e.adapter = adapter
  /\ e.emits = << >>

\* C31: every offer_action that fails (BAD_REQUEST, OPPONENT_NOT_PRESENT,
\* OFFER_PENDING) and every respond_offer that fails with OFFER_NOT_FOUND or
\* CANNOT_ACCEPT_OWN leaves rooms and pendingOffers unchanged and emits no
\* message besides the acknowledgement to the caller, and the same request
\* kinds still succeed afterwards once their preconditions hold.
C31_FailedRequestChangesNothing ==
  /\ \A s \in OpenSockets, q \in OfferRequests :
       LET e == OfferEffect(s, q.roomId, q.type, q.fromColor, q.plies, q.baseFen)
       IN ~e.ack.ok
            => /\ e.ack.error \in {"BAD_REQUEST", "OPPONENT_NOT_PRESENT", "OFFER_PENDING"}
               /\ NothingDone(e)
  /\ \A s \in OpenSockets, q \in RespondRequests :
       LET e == RespondEffect(s, q.roomId, q.offerId, q.accept, q.currentFen)
       IN e.ack.error \in {"OFFER_NOT_FOUND", "CANNOT_ACCEPT_OWN"} => NothingDone(e)
  /\ (ack.called /\ ~ack.ok /\ ack.error # "OFFER_STALE")
       => /\ \A s \in OpenSockets, q \in OfferRequests :
               (/\ q.roomId \in Rooms
                /\ q.type \in {"undo", "draw"}
                /\ q.type = "undo" => q.baseFen # NoFen
                /\ RoomSize(adapter, q.roomId) >= ROOM_CAPACITY
                /\ pendingOffers[q.roomId] = NoOffer)
                 => OfferEffect(s, q.roomId, q.type, q.fromColor, q.plies,
                                q.baseFen).ack.ok
          /\ \A s \in OpenSockets, q \in RespondRequests :
               (/\ q.roomId \in Rooms
                /\ pendingOffers[q.roomId] # NoOffer
                /\ pendingOffers[q.roomId].id = q.offerId
                /\ pendingOffers[q.roomId].from # s
                /\ ~(q.accept /\ pendingOffers[q.roomId].type = "undo"
                       /\ q.currentFen # pendingOffers[q.roomId].baseFen))
                 => RespondEffect(s, q.roomId, q.offerId, q.accept, q.currentFen).ack
                      = AckOk

\* an offer_action has just failed OFFER_PENDING: the offer it met is still
\* pending and the other participant can accept it
C31_Witness ==
  /\ ack = AckErr("OFFER_PENDING")
  /\ emits = << >>
  /\ \E r \in OfferRooms, s \in OpenSockets :
       /\ pendingOffers[r] # NoOffer
       /\ RespondEffect(s, r, pendingOffers[r].id, TRUE, pendingOffers[r].baseFen).ack
            = AckOk

\* the history of after is the history of before with one entry on top, the
\* snapshot of what after holds
GrownByOne(before, after) ==
  /\ Len(after.snapshots) = Len(before.snapshots) + 1
  /\ SubSeq(after.snapshots, 1, Len(before.snapshots)) = before.snapshots
  /\ after.snapshots[Len(after.snapshots)]
       = [fen |-> Fen(after.game), rulesState |-> GetRulesState(after)]

\* C32: the snapshot history grows by exactly one entry on every successful
\* makeMove and on every applyRemoteState (that returns), the new top entry
\* holding the resulting position and variant state, and it does not change on
\* a makeMove that returns null.
C32_HistoryGrowsByOne ==
  /\ \A m \in Moves :
       LET after == MakeMoveOf(engine, m)
       IN /\ after.ret = "move" => GrownByOne(engine, after)
          /\ after.ret = "null" => after.snapshots = engine.snapshots
  /\ \A fen \in RemoteFens, rulesState \in RemoteStates :
       LET after == ApplyRemoteStateOf(engine, fen, rulesState)
       IN after.ret # "throw"
            => /\ GrownByOne(engine, after)
               /\ after.snapshots[Len(after.snapshots)].fen = fen

\* a received position has been pushed on a history that moves had built
C32_Witness ==
  /\ engine.ret = "none"
  /\ Len(engine.snapshots) = MaxHistory
  /\ engine.game.board.n = MaxPly
  /\ engine.snapshots[2].fen.board.n = 1
  /\ engine.snapshots[MaxHistory]
       = [fen |-> Fen(engine.game), rulesState |-> GetRulesState(engine)]

\* C33: reset_game and resign_game change neither rooms nor pendingOffers: the
\* server only broadcasts game_reset or player_resigned to the room, so an
\* offer pending before a reset is still pending, and still resolvable, after
\* it.
C33_ResetAndResignOnlyBroadcast ==
  /\ \A s \in OpenSockets, r \in RoomInputs :
       LET e == ResetGameEffect(s, r)
       IN /\ e.rooms = rooms /\ e.pendingOffers = pendingOffers
          /\ e.adapter = adapter /\ e.dataRoomId = dataRoomId
          /\ e.emits = <<GameReset(AllIn(adapter, r))>>
          /\ e.ack = NoAck
  /\ \A s \in OpenSockets, r \in RoomInputs, color \in ColorInputs :
       LET e == ResignGameEffect(s, r, color)
       IN /\ e.rooms = rooms /\ e.pendingOffers = pendingOffers
          /\ e.adapter = adapter /\ e.dataRoomId = dataRoomId
          /\ e.emits = <<PlayerResigned(AllIn(adapter, r), color)>>
          /\ e.ack = NoAck
  /\ (Emitted("game_reset") \/ Emitted("player_resigned"))
       => \A r \in OfferRooms, s \in OpenSockets :
            (pendingOffers[r] # NoOffer /\ pendingOffers[r].from # s)
              => LET e == RespondEffect(s, r, pendingOffers[r].id, FALSE,
                                        pendingOffers[r].baseFen)
                 IN e.ack = AckOk /\ e.pendingOffers[r] = NoOffer

\* game_reset has just gone to both participants of a room whose offer is
\* still pending
C33_Witness ==
  /\ Emitted("game_reset")
  /\ \E r \in OfferRooms :
       /\ pendingOffers[r] # NoOffer
       /\ emits[1].to = adapter[r]
       /\ Cardinality(adapter[r]) = ROOM_CAPACITY

\* C34: at every moment rooms[roomId].players contains exactly the sockets that
\* are joined to the transport-level room roomId, so the playerCount broadcast
\* in room_info always equals the length of the participants list; this holds
\* also when a socket joins several rooms and then disconnects.
C34_PlayersAreTheJoinedSockets ==
  /\ \A r \in Rooms :
       /\ Participants(r) = adapter[r]
       /\ Len(rooms[r].players) = Cardinality(adapter[r])
  /\ \A m \in MsgsOf(emits, "room_info") :
       \E r \in Rooms : m.to = adapter[r] /\ m.playerCount = Len(rooms[r].players)

\* C35: two sockets that are participants of the same room at the same time
\* never hold the same colour: after any sequence of joins, leaves and
\* disconnects, the colours the two current participants were told by
\* player_assignment are different.
C35_ParticipantsHoldDifferentColors ==
  \A r \in Rooms : \A s, q \in Participants(r) :
    (s # q /\ Open(s) /\ Open(q) /\ s \in adapter[r] /\ q \in adapter[r])
      => playerColor[s] # playerColor[q]

\* no event is on its way to the server or to a client
Quiescent ==
  \A c \in PeerSockets : outbox[c] = << >> /\ inbox[c] = << >>

\* C36: starting from two clients with equal snapshot histories under the same
\* variant, under every interleaving of make_move, offer_action, respond_offer
\* and the server's broadcasts, once all in-flight messages have been delivered
\* both clients' engines hold the same position; a move made by a client after
\* an accept was sent but before undo_committed reaches that client does not
\* leave the two clients on different positions.
C36_ClientsAgreeWhenQuiescent ==
  Quiescent => Fen(apps[1].engine.game) = Fen(apps[2].engine.game)

\* C37: whenever the server has emitted undo_committed{plies} for the room,
\* each client's engine holds more than plies snapshots when it processes the
\* event, so that undoPlies succeeds on both clients; also in sessions where
\* one client's history was reset to a single entry by an automatic variant
\* switch while the other client's history was kept.
C37_UndoCommittedCanBeApplied ==
  \A c \in PeerSockets :
    (inbox[c] # << >> /\ Head(inbox[c]).ev = "undo_committed")
      => CanUndoPlies(apps[c].engine, RequestUndoPlies(Head(inbox[c]).plies))

\* C38: whenever canUndoPlies(getSuggestedUndoPlies(c)) holds for a colour c,
\* undoing that many plies leaves the engine in a position where the side to
\* move is c and the turn is at its start (turnStep 0), so that an undo request
\* of a player never takes back the opponent's moves only.
C38_SuggestedUndoReturnsToOwnTurn ==
  \A c \in Colors :
    LET plies == GetSuggestedUndoPlies(engine, c)
        undone == UndoPliesOf(engine, plies)
    IN CanUndoPlies(engine, plies)
         => /\ undone.game.turn = c
            /\ SnapshotTurnStep(undone.snapshots[Len(undone.snapshots)]) = 0

\* C39: a pending offer made by a participant of the room keeps its parties:
\* as long as it stays pending, the proposer is a current participant and the
\* room's other current participant is the socket that was sent
\* offer_received, so that a participant that knows its id can resolve it;
\* also when a participant disconnects and a different socket joins in its
\* place.
C39_PendingOfferKeepsItsParties ==
  [][\A r \in Rooms :
       (/\ pendingOffers[r] # NoOffer
        /\ pendingOffers[r].from \in adapter[r]
        /\ pendingOffers'[r] = pendingOffers[r])
         => adapter'[r] = adapter[r]]_vars

\* C40: in the TwoStep variant, after any sequence of makeMove,
\* applyRemoteState, syncTo, reset and undoPlies calls, with any rules state
\* argument (null and malformed ones included), turnStep is 0 or 1; and no
\* colour plays more than two plies in a row by makeMove: a ply played at
\* turnStep 1 passes the turn, and a ply leaves the same colour to move only
\* when it was played at turnStep 0 and leaves turnStep 1.
C40_TwoStepTurnIsAtMostTwoPlies ==
  engine.id = RULESET_IDS.TWO_STEP =>
    /\ engine.turnStep \in {0, 1}
    /\ \A m \in Moves :
         LET made == MakeMoveOf(engine, m)
         IN made.game # engine.game =>
              /\ made.turnStep \in {0, 1}
              /\ engine.turnStep = 1 =>
                   made.turnStep = 0 /\ made.game.turn = Opposite(engine.game.turn)
              /\ made.turnStep = 1 =>
                   engine.turnStep = 0 /\ made.game.turn = engine.game.turn
              /\ made.turnStep = 0 => made.game.turn = Opposite(engine.game.turn)

\* a TwoStep engine at the second step of a turn, in a position it was given by
\* applyRemoteState or syncTo, where a move can be made
C40_Witness ==
  /\ engine.id = RULESET_IDS.TWO_STEP
  /\ engine.turnStep = 1
  /\ engine.game.board.n = MaxPly
  /\ engine.ret # "move"
  /\ \E m \in Moves : MakeMoveOf(engine, m).ret = "move"

====
